---- MODULE Spec2Model ----
(***************************************************************************)
(* A model of the blog_with_users Flask application (main.py, forms.py):   *)
(* the three tables, the login session, and one action per route.         *)
(* Text fields are sequences of tokens, so that the form validators can   *)
(* inspect their shape.                                                    *)
(***************************************************************************)
EXTENDS Integers, Sequences, FiniteSets

VARIABLES users, posts, comments, session, req, resp

vars == <<users, posts, comments, session, req, resp>>
store == <<users, posts, comments>>

(* ---------------- bounds and input domains ---------------- *)

MaxUsers == 2
MaxPosts == 2
MaxComments == 1

\* NULL in a nullable integer column / no user id in the session cookie
None == 0

Emails == {<<"a", "@", "x.com">>, <<"b", "@", "x.com">>, <<"a">>}
\* passwords chosen at registration, and passwords tried at login
RegPasswords == {<<1>>, <<>>}
Passwords == {<<1>>, <<2>>}
Names == {<<"Alice">>}
Salts == {1}
Titles == {<<"T1">>, <<"T2">>, <<>>}
Subtitles == {<<"S1">>}
Bodies == {<<"B1">>}
Urls == {<<"http", "://", "img.com">>, <<"img.com">>}
Texts == {<<"hello">>, <<>>}
Dates == {<<"November", "04", "2026">>}
PostIds == 1 .. (MaxPosts + 1)

(* ---------------- forms.py: validators ---------------- *)

DataRequired(s) == s # <<>>

Email(s) ==
    /\ Cardinality({i \in DOMAIN s : s[i] = "@"}) = 1
    /\ \E i \in DOMAIN s : s[i] = "@" /\ i > 1 /\ i < Len(s)

URL(s) == Len(s) >= 3 /\ s[1] \in {"http", "https"} /\ s[2] = "://"

SubmitMethods == {"POST", "PUT", "PATCH", "DELETE"}

\* FlaskForm.validate_on_submit: is_submitted() and validate()
validate_on_submit(method, valid) == method \in SubmitMethods /\ valid

CreatePostForm_validate(f) ==
    /\ DataRequired(f.title)
    /\ DataRequired(f.subtitle)
    /\ DataRequired(f.img_url) /\ URL(f.img_url)
    /\ DataRequired(f.body)

CreatePostForm_fields == {"title", "subtitle", "img_url", "body", "submit"}

CreateCommentForm_validate(f) == DataRequired(f.body)

UserForm_validate(f) ==
    /\ DataRequired(f.email) /\ Email(f.email)
    /\ DataRequired(f.password)
    /\ DataRequired(f.name)

\* LoginForm overrides name with a HiddenField without validators
LoginForm_validate(f) ==
    /\ DataRequired(f.email) /\ Email(f.email)
    /\ DataRequired(f.password)

(* ---------------- password hashing (werkzeug) ---------------- *)

RECURSIVE Mix(_, _)
Mix(pw, acc) == IF pw = <<>> THEN acc ELSE Mix(Tail(pw), (acc * 31 + Head(pw)) % 101)

pbkdf2(pw, salt) == Mix(pw, (salt * 17) % 101)

generate_password_hash(pw, salt) ==
    [method |-> "pbkdf2:sha256", salt |-> salt, digest |-> pbkdf2(pw, salt)]

check_password_hash(pwhash, pw) == pwhash.digest = pbkdf2(pw, pwhash.salt)

(* ---------------- the tables ---------------- *)

Ids(rows) == {r.id : r \in rows}

\* integer primary key: the store assigns the next row id
NextId(rows) == IF rows = {} THEN 1 ELSE (CHOOSE m \in Ids(rows) : \A i \in Ids(rows) : i <= m) + 1

\* User.email is unique
User_email_taken_off(us, email) == FALSE
User_email_taken(us, email) == \E u \in us : u.email = email

\* BlogPost.title is unique
BlogPost_title_taken(ps, title) == \E p \in ps : p.title = title

\* attributes of a mapped BlogPost instance: columns, relationship, backref
BlogPost_attrs == {"id", "author_id", "title", "subtitle", "date", "body", "img_url", "comments", "user"}

\* Query.get: the row with that primary key, or None (a row whose id is None)
NoRow == [id |-> None]
get(rows, id) == IF id \in Ids(rows) THEN CHOOSE r \in rows : r.id = id ELSE NoRow

AnonymousUser == [is_authenticated |-> FALSE]

load_user(user_id) ==
    IF user_id \in Ids(users)
    THEN [is_authenticated |-> TRUE, id |-> user_id]
    ELSE AnonymousUser

\* flask_login.current_user for the session of the request
current_user == IF session = None THEN AnonymousUser ELSE load_user(session)

(* ---------------- responses ---------------- *)

Response(status, view, pid, msg, ran) ==
    [status |-> status, view |-> view, post_id |-> pid, flash |-> msg,
     all_posts |-> {}, ran |-> ran]

redirect(view, pid, msg) == Response(302, view, pid, msg, TRUE)
render_template(view, pid) == Response(200, view, pid, "", TRUE)
\* an exception leaving the view function; Flask answers an uncaught one with 500
raise(exc) == Response(500, exc, None, "", TRUE)
abort(status, ran) == Response(status, "abort", None, "", ran)

\* what a request leaves behind: tables, session, response
Outcome(us, ps, cs, s, r) == [users |-> us, posts |-> ps, comments |-> cs, session |-> s, resp |-> r]
Keep(r) == Outcome(users, posts, comments, session, r)

(* ---------------- main.py: admin_only ---------------- *)

admin_only_any_user(out) ==
    IF "id" \in DOMAIN current_user
    THEN out
    ELSE Keep(abort(403, FALSE))

\* out is what func(*args, **kwargs) does when it is called
admin_only(out) ==
    IF "id" \in DOMAIN current_user
    THEN IF current_user.id = 1
         THEN IF out.resp.status = 500 /\ out.resp.view = "AttributeError"
              THEN Keep(abort(403, TRUE))
              ELSE out
         ELSE Keep(Response(500, "TypeError", None, "", FALSE))
    ELSE Keep(abort(403, FALSE))

(* ---------------- main.py: view functions ---------------- *)

register(method, form, salt) ==
    IF method = "POST" /\ validate_on_submit(method, UserForm_validate(form))
    THEN IF User_email_taken(users, form.email)
         THEN Keep(redirect("login", None, "This email address is already used"))
         ELSE Outcome(users \cup {[id |-> NextId(users), email |-> form.email,
                                   password |-> generate_password_hash(form.password, salt),
                                   name |-> form.name]},
                      posts, comments, session, redirect("get_all_posts", None, ""))
    ELSE Keep(render_template("register.html", None))

login_any_password(method, form) ==
    IF method = "POST" /\ validate_on_submit(method, LoginForm_validate(form))
    THEN IF \E u \in users : u.email = form.email
         THEN LET user == CHOOSE u \in users : u.email = form.email
              IN Outcome(users, posts, comments, user.id, redirect("get_all_posts", None, ""))
         ELSE Keep(redirect("login", None, "Email address not found."))
    ELSE Keep(render_template("login.html", None))

login(method, form) ==
    IF method = "POST" /\ validate_on_submit(method, LoginForm_validate(form))
    THEN IF \E u \in users : u.email = form.email
         THEN LET user == CHOOSE u \in users : u.email = form.email
              IN IF check_password_hash(user.password, form.password)
                 THEN Outcome(users, posts, comments, user.id, redirect("get_all_posts", None, ""))
                 ELSE Keep(redirect("login", None, "Wrong password."))
         ELSE Keep(redirect("login", None, "Email address not found."))
    ELSE Keep(render_template("login.html", None))

logout_keeps_session ==
    IF current_user.is_authenticated
    THEN Keep(redirect("get_all_posts", None, ""))
    ELSE Keep(abort(401, FALSE))

\* login_required answers 401 when no login view is configured
logout ==
    IF current_user.is_authenticated
    THEN Outcome(users, posts, comments, None, redirect("get_all_posts", None, ""))
    ELSE Keep(abort(401, FALSE))

get_all_posts ==
    Keep([render_template("index.html", None) EXCEPT !.all_posts = posts])

show_post_no_login_check(method, post_id, form) ==
    LET requested_post == get(posts, post_id) IN
    IF method = "POST" /\ validate_on_submit(method, CreateCommentForm_validate(form))
    THEN IF requested_post.id = None
         THEN Keep(raise("AttributeError"))
         ELSE Outcome(users, posts,
                      comments \cup {[id |-> NextId(comments), author_id |-> session,
                                      post_id |-> requested_post.id, text |-> form.body]},
                      session, render_template("post.html", post_id))
    ELSE Keep(render_template("post.html", post_id))

show_post(method, post_id, form) ==
    LET requested_post == get(posts, post_id) IN
    IF method = "POST" /\ validate_on_submit(method, CreateCommentForm_validate(form))
    THEN IF current_user.is_authenticated
         THEN IF requested_post.id = None
              THEN Keep(raise("AttributeError"))
              ELSE Outcome(users, posts,
                           comments \cup {[id |-> NextId(comments), author_id |-> current_user.id,
                                           post_id |-> requested_post.id, text |-> form.body]},
                           session, render_template("post.html", post_id))
         ELSE Keep(redirect("login", None, "Sorry, you need to log in first!"))
    ELSE Keep(render_template("post.html", post_id))

add_new_post_no_author(method, form, today) ==
    IF validate_on_submit(method, CreatePostForm_validate(form))
    THEN IF BlogPost_title_taken(posts, form.title)
         THEN Keep(raise("IntegrityError"))
         ELSE Outcome(users,
                      posts \cup {[id |-> NextId(posts), author_id |-> None,
                                   title |-> form.title, subtitle |-> form.subtitle,
                                   body |-> form.body, img_url |-> form.img_url, date |-> today]},
                      comments, session, redirect("get_all_posts", None, ""))
    ELSE Keep(render_template("make-post.html", None))

add_new_post(method, form, today) ==
    IF validate_on_submit(method, CreatePostForm_validate(form))
    THEN IF BlogPost_title_taken(posts, form.title)
         THEN Keep(raise("IntegrityError"))
         ELSE Outcome(users,
                      posts \cup {[id |-> NextId(posts), author_id |-> current_user.id,
                                   title |-> form.title, subtitle |-> form.subtitle,
                                   body |-> form.body, img_url |-> form.img_url, date |-> today]},
                      comments, session, redirect("get_all_posts", None, ""))
    ELSE Keep(render_template("make-post.html", None))

edit_post(method, post_id, form) ==
    LET post == get(posts, post_id) IN
    IF post.id = None \/ "author" \notin BlogPost_attrs
    THEN Keep(raise("AttributeError"))
    ELSE IF validate_on_submit(method, CreatePostForm_validate(form))
         THEN IF "author" \notin CreatePostForm_fields
              THEN Keep(raise("AttributeError"))
              ELSE IF BlogPost_title_taken(posts \ {post}, form.title)
                   THEN Keep(raise("IntegrityError"))
                   ELSE Outcome(users,
                                (posts \ {post}) \cup
                                    {[post EXCEPT !.title = form.title, !.subtitle = form.subtitle,
                                                  !.img_url = form.img_url, !.body = form.body]},
                                comments, session, redirect("show_post", post.id, ""))
         ELSE Keep(render_template("make-post.html", None))

\* Session.delete of a parent row sets the foreign key of its children to NULL
delete_post(post_id) ==
    LET post_to_delete == get(posts, post_id) IN
    IF post_to_delete.id = None
    THEN Keep(raise("UnmappedInstanceError"))
    ELSE Outcome(users, posts \ {post_to_delete},
                 {IF c.post_id = post_id THEN [c EXCEPT !.post_id = None] ELSE c : c \in comments},
                 session, redirect("get_all_posts", None, ""))

(* ---------------- requests ---------------- *)

\* the request just handled: route, method, the session it came with, the
\* post id of the URL and whether its form passes validate()
Request(route, method, pid, valid) ==
    [route |-> route, method |-> method, user |-> session, post_id |-> pid, valid |-> valid]

\* one request handled to completion; primary keys stay within the bounds
Handle(r, out) ==
    /\ Cardinality(out.users) <= MaxUsers
    /\ \A p \in out.posts : p.id <= MaxPosts
    /\ Cardinality(out.comments) <= MaxComments
    /\ users' = out.users
    /\ posts' = out.posts
    /\ comments' = out.comments
    /\ session' = out.session
    /\ resp' = out.resp
    /\ req' = r

\* a GET of a form page carries no form data
UserForms(method) ==
    IF method = "GET" THEN {[email |-> <<>>, password |-> <<>>, name |-> <<>>]}
    ELSE [email : Emails, password : RegPasswords, name : Names]
LoginForms(method) ==
    IF method = "GET" THEN {[email |-> <<>>, password |-> <<>>]}
    ELSE [email : Emails, password : Passwords]
PostForms == [title : Titles, subtitle : Subtitles, img_url : Urls, body : Bodies]
NewPostForms(method) ==
    IF method = "GET" THEN {[title |-> <<>>, subtitle |-> <<>>, img_url |-> <<>>, body |-> <<>>]}
    ELSE PostForms
CommentForms(method) == IF method = "GET" THEN {[body |-> <<>>]} ELSE [body : Texts]

RegisterReq(method, form, salt) ==
    Handle(Request("register", method, None, UserForm_validate(form)),
           register(method, form, salt))

LoginReq(method, form) ==
    Handle(Request("login", method, None, LoginForm_validate(form)), login(method, form))

ShowPostReq(method, post_id, form) ==
    Handle(Request("show_post", method, post_id, CreateCommentForm_validate(form)),
           show_post(method, post_id, form))

AddNewPostReq(method, form, today) ==
    Handle(Request("add_new_post", method, None, CreatePostForm_validate(form)),
           admin_only(add_new_post(method, form, today)))

EditPostReq(method, post_id, form) ==
    Handle(Request("edit_post", method, post_id, CreatePostForm_validate(form)),
           admin_only(edit_post(method, post_id, form)))

DeletePostReq(post_id) ==
    Handle(Request("delete_post", "GET", post_id, TRUE), admin_only(delete_post(post_id)))

Register ==
    \E method \in {"GET", "POST"} : \E form \in UserForms(method), salt \in Salts :
        RegisterReq(method, form, salt)

Login ==
    \E method \in {"GET", "POST"} : \E form \in LoginForms(method) : LoginReq(method, form)

Logout == Handle(Request("logout", "GET", None, TRUE), logout)

GetAllPosts == Handle(Request("get_all_posts", "GET", None, TRUE), get_all_posts)

ShowPost ==
    \E method \in {"GET", "POST"}, post_id \in PostIds : \E form \in CommentForms(method) :
        ShowPostReq(method, post_id, form)

AddNewPost ==
    \E method \in {"GET", "POST"}, today \in Dates : \E form \in NewPostForms(method) :
        AddNewPostReq(method, form, today)

\* the route accepts GET only; the edit form travels with that request
EditPost ==
    \E post_id \in PostIds, form \in PostForms : EditPostReq("GET", post_id, form)

DeletePost == \E post_id \in PostIds : DeletePostReq(post_id)

Init ==
    /\ users = {}
    /\ posts = {}
    /\ comments = {}
    /\ session = None
    /\ req = Request("about", "GET", None, TRUE)
    /\ resp = render_template("about.html", None)

Next ==
    \/ Register
    \/ Login
    \/ Logout
    \/ GetAllPosts
    \/ ShowPost
    \/ AddNewPost
    \/ EditPost
    \/ DeletePost

Spec == Init /\ [][Next]_vars

(* ---------------- properties ---------------- *)

Gated == {"add_new_post", "edit_post", "delete_post"}

StoreUnchanged == users' = users /\ posts' = posts /\ comments' = comments

TypeOK ==
    /\ \A u \in users : u.id \in 1 .. MaxUsers
    /\ \A p \in posts : p.id \in 1 .. MaxPosts /\ p.author_id \in Ids(users)
    /\ \A c \in comments : c.id \in 1 .. MaxComments
    /\ session \in {None} \cup Ids(users)

\* C1: a create/edit/delete-post request from a session that is not bound to
\* user 1 (another user, or anonymous) never runs the wrapped view function
\* and leaves the Users, Posts and Comments tables unchanged.
C1_NonAdminLeavesStore ==
    [][(req'.route \in Gated /\ session # 1) => (StoreUnchanged /\ ~resp'.ran)]_vars

C1_Witness ==
    /\ req.route = "delete_post"
    /\ req.user = 2
    /\ req.post_id \in Ids(posts)
    /\ ~resp.ran

\* C2: every create/edit/delete-post request from a session that is not bound
\* to user 1 (another user, or anonymous) is answered with 403 Forbidden.
C2_NonAdminForbidden ==
    [][(req'.route \in Gated /\ session # 1) => resp'.status = 403]_vars

\* C3: no two User rows ever share an email, and a register call whose email
\* already belongs to a stored user adds no row, changes no User row and,
\* when the form is valid, ends in the duplicate-email outcome.
C3_EmailUnique ==
    [][/\ \A u1, u2 \in users' : u1.email = u2.email => u1 = u2
       /\ req'.route = "register" =>
          \A method \in {"GET", "POST"} : \A form \in UserForms(method), salt \in Salts :
            (RegisterReq(method, form, salt) /\ \E u \in users : u.email = form.email)
            => /\ StoreUnchanged
               /\ Cardinality({u \in users' : u.email = form.email}) = 1
               /\ (method = "POST" /\ UserForm_validate(form))
                  => /\ resp'.status = 302 /\ resp'.view = "login"
                     /\ resp'.flash = "This email address is already used"]_vars

C3_Witness ==
    /\ req.route = "register"
    /\ resp.flash = "This email address is already used"
    /\ Cardinality(users) = 2

\* C4: a login attempt with a registered email and a password that does not
\* match the stored hash, or with an email no stored user has, fails: the
\* session and the tables are as before, and a valid form is answered with
\* the wrong-password or the unknown-email message.
C4_FailedLoginKeepsSession ==
    [][req'.route = "login" =>
       \A method \in {"GET", "POST"} : \A form \in LoginForms(method) :
         LET known == {u \in users : u.email = form.email}
             mismatch == \E u \in known : u.password.digest # pbkdf2(form.password, u.password.salt)
         IN (LoginReq(method, form) /\ (known = {} \/ mismatch))
            => /\ session' = session
               /\ StoreUnchanged
               /\ ~(resp'.status = 302 /\ resp'.view = "get_all_posts")
               /\ (method = "POST" /\ LoginForm_validate(form))
                  => /\ resp'.status = 302 /\ resp'.view = "login"
                     /\ resp'.flash = (IF known = {} THEN "Email address not found."
                                       ELSE "Wrong password.")]_vars

C4_Witness ==
    /\ req.route = "login"
    /\ resp.flash = "Wrong password."
    /\ session = req.user

\* C5: a valid comment form posted to /post/<id> by an unauthenticated session
\* creates no Comment row, leaves the tables unchanged and is answered with a
\* redirect to login, whether or not the post exists.
C5_AnonymousCommentRejected ==
    [][(/\ req'.route = "show_post" /\ req'.method = "POST" /\ req'.valid
        /\ ~current_user.is_authenticated)
       => (StoreUnchanged /\ resp'.status = 302 /\ resp'.view = "login")]_vars

C5_Witness ==
    /\ req.route = "show_post" /\ req.method = "POST" /\ req.valid
    /\ req.user = None
    /\ req.post_id \in Ids(posts)
    /\ resp.view = "login"

\* C6: the first user registered gets id 1; logged in, that user's valid
\* create-post submission with a fresh title inserts exactly one Post authored
\* by user 1 and is redirected to the list, which returns every stored post;
\* the same submission by a later user creates no Post.
C6_FirstUserCreatesPost ==
    [][/\ (users = {} /\ users' # {}) => Ids(users') = {1}
       /\ req'.route = "add_new_post" =>
          \A today \in Dates, form \in PostForms :
            (/\ AddNewPostReq("POST", form, today)
             /\ session = 1
             /\ CreatePostForm_validate(form)
             /\ \A p \in posts : p.title # form.title)
            => /\ \E p \in posts' :
                    /\ p \notin posts
                    /\ posts' = posts \cup {p}
                    /\ p.author_id = 1
                    /\ p.title = form.title /\ p.subtitle = form.subtitle
                    /\ p.img_url = form.img_url /\ p.body = form.body
                    /\ p.date = today
               /\ Cardinality(posts') = Cardinality(posts) + 1
               /\ resp'.status = 302 /\ resp'.view = "get_all_posts"
       /\ req'.route = "get_all_posts" => (resp'.status = 200 /\ resp'.all_posts = posts)
       /\ (req'.route = "add_new_post" /\ session \notin {None, 1}) => posts' = posts]_vars

C6_Witness ==
    /\ req.route = "get_all_posts"
    /\ req.user = 1
    /\ resp.all_posts # {}
    /\ \A p \in resp.all_posts : p.author_id = 1

\* C7: a valid edit form submitted by the admin session for an existing post
\* updates the post's title, subtitle, image URL and body to the submitted
\* values and is answered with a redirect to that post's view.
C7_EditUpdatesPost ==
    [][req'.route = "edit_post" =>
       \A post_id \in PostIds, form \in PostForms :
         (/\ EditPostReq("GET", post_id, form)
          /\ session = 1
          /\ post_id \in Ids(posts)
          /\ CreatePostForm_validate(form))
         => /\ \E p \in posts' :
                 /\ p.id = post_id
                 /\ p.title = form.title /\ p.subtitle = form.subtitle
                 /\ p.img_url = form.img_url /\ p.body = form.body
            /\ resp'.status = 302 /\ resp'.view = "show_post" /\ resp'.post_id = post_id]_vars

\* C8: logout with an active session ends it and leaves the tables alone;
\* while no session is active, only a successful login starts one, every
\* create/edit/delete-post request is denied and every valid comment
\* submission is redirected to login; logout without a session changes nothing.
C8_LogoutEndsSession ==
    [][/\ (req'.route = "logout" /\ session # None)
          => (session' = None /\ StoreUnchanged /\ resp'.status = 302)
       /\ (req'.route = "logout" /\ session = None)
          => (session' = None /\ StoreUnchanged /\ resp'.status = 401)
       /\ (session = None /\ session' # None)
          => (req'.route = "login" /\ resp'.status = 302 /\ resp'.view = "get_all_posts")
       /\ (session = None /\ req'.route \in Gated)
          => (resp'.status = 403 /\ ~resp'.ran /\ StoreUnchanged)
       /\ (session = None /\ req'.route = "show_post" /\ req'.method = "POST" /\ req'.valid)
          => (resp'.status = 302 /\ resp'.view = "login" /\ StoreUnchanged)]_vars

C8_Witness ==
    /\ req.route = "logout"
    /\ req.user = 1
    /\ session = None
    /\ posts # {}
    /\ resp.status = 302

\* C9: every Comment row references an existing User as author and an
\* existing Post, also after delete post removed the post it was attached to.
C9_CommentsHaveAuthorAndPost ==
    \A c \in comments : c.author_id \in Ids(users) /\ c.post_id \in Ids(posts)

\* C10: a create/edit/delete-post request from the session of user 1 always
\* runs the wrapped view function and is never answered with 403 Forbidden.
C10_AdminNeverForbidden ==
    [][(req'.route \in Gated /\ session = 1) => (resp'.ran /\ resp'.status # 403)]_vars

====
